---- MODULE Spec2Model ----
(***************************************************************************)
(* Model of sbomasm's SPDX field-reconciliation engine                     *)
(* (pkg/edit/spdx_edit.go) and of its SPDX hierarchical merge engine       *)
(* (pkg/assemble/spdx/merge.go).                                           *)
(*                                                                         *)
(* Go strings are sequences of one-character strings, so that              *)
(* strings.HasPrefix, strings.ToLower, strings.Trim, fmt.Sprintf and       *)
(* the semantic-version parser are computed on the characters.             *)
(* Go slices and pointers carry their nil-ness: a slice is                 *)
(* [isNil, elems], a pointer to a struct is the struct plus isNil.         *)
(***************************************************************************)
EXTENDS Integers, Sequences, FiniteSets

VARIABLES
    bom,       \* spdxEditDoc.bom: the document under edit
    bom0,      \* the document as it was loaded, before the first run
    pkg,       \* spdxEditDoc.pkg: index into bom.Packages, 0 for a nil pointer
    c,         \* spdxEditDoc.c: the configParams of the run
    epc,       \* position of update() in its handler table: 0 idle, 1..15, 16 done, 17 panicked
    run,       \* number of edit runs started on this document
    lastErr,   \* the error the last handler returned
    notSup,    \* the handlers that returned errNotSupported in this run (what update() logs)
    in,        \* merge.in: the loaded input documents
    in0,       \* the input documents as loadBoms delivered them
    out,       \* merge.out
    pkgs,      \* hierarchicalMerge's local pkgs
    deps,      \* hierarchicalMerge's local deps
    mpc,       \* stage of the merge
    di,        \* index of the input document being ingested
    pi,        \* index of the next component of that document
    uuids,     \* number of uuid.New() calls made so far
    rootPackageID, \* merge.rootPackageID
    newIds,    \* per input document: original identifier -> identifier assigned to the described copy
    failed     \* per input document: indexes of the components whose cloneComp failed

editVars == <<bom, bom0, pkg, c, epc, run, lastErr, notSup>>
mergeVars == <<in, in0, out, pkgs, deps, mpc, di, pi, uuids, rootPackageID, newIds, failed>>
vars == <<bom, bom0, pkg, c, epc, run, lastErr, notSup,
          in, in0, out, pkgs, deps, mpc, di, pi, uuids, rootPackageID, newIds, failed>>

----------------------------------------------------------------------------
(* Bounds of the model *)

MaxCreators == 2
MaxTools == 2
MaxRefs == 2
MaxRuns == 2
MaxDocs == 2

----------------------------------------------------------------------------
(* Go strings *)

UpperChars == <<"A","B","C","D","E","F","G","H","I","J","K","L","M",
                "N","O","P","Q","R","S","T","U","V","W","X","Y","Z">>
LowerChars == <<"a","b","c","d","e","f","g","h","i","j","k","l","m",
                "n","o","p","q","r","s","t","u","v","w","x","y","z">>

ToLowerChar(ch) ==
    IF \E i \in 1..26 : UpperChars[i] = ch
    THEN LowerChars[CHOOSE i \in 1..26 : UpperChars[i] = ch]
    ELSE ch

\* strings.ToLower
ToLower(s) == [i \in 1..Len(s) |-> ToLowerChar(s[i])]

\* strings.HasPrefix
HasPrefix(s, prefix) ==
    /\ Len(prefix) <= Len(s)
    /\ SubSeq(s, 1, Len(prefix)) = prefix

\* strings.Trim(s, cutset) for a one-character cutset
RECURSIVE TrimLeft(_, _)
TrimLeft(s, ch) ==
    IF s /= <<>> /\ Head(s) = ch THEN TrimLeft(Tail(s), ch) ELSE s

RECURSIVE TrimRight(_, _)
TrimRight(s, ch) ==
    IF s /= <<>> /\ s[Len(s)] = ch THEN TrimRight(SubSeq(s, 1, Len(s) - 1), ch) ELSE s

Trim(s, ch) == TrimRight(TrimLeft(s, ch), ch)

\* fmt.Sprintf("%s-%s", a, b)
SprintfDash(a, b) == a \o <<"-">> \o b

\* fmt.Sprintf("%s (%s)", a, b)
SprintfParen(a, b) == a \o <<" ", "(">> \o b \o <<")">>

\* strings.Join(elems, ",")
RECURSIVE JoinComma(_)
JoinComma(elems) ==
    IF elems = <<>> THEN <<>>
    ELSE IF Len(elems) = 1 THEN elems[1]
    ELSE elems[1] \o <<",">> \o JoinComma(Tail(elems))

----------------------------------------------------------------------------
(* Go slices *)

NilSlice == [isNil |-> TRUE, elems |-> <<>>]
Slice(s) == [isNil |-> FALSE, elems |-> s]

\* append(sl, xs...)
GoAppend(sl, xs) ==
    [isNil |-> sl.isNil /\ xs = <<>>, elems |-> sl.elems \o xs]

\* all sequences over S of length at most n
SeqsUpTo(S, n) == UNION {[1..k -> S] : k \in 0..n}

----------------------------------------------------------------------------
(* Constants of pkg/edit *)

SBOMASM == <<"s","b","o","m","a","s","m">>
SBOMASM_VERSION == <<"0",".","1",".","9">>


\* the SPDX element identifiers used by the documents under edit
IdA == <<"A">>
IdB == <<"B">>

----------------------------------------------------------------------------
(* configParams: the policy and the configured values *)

onMissing(cfg) == cfg.policy = "missing"
onAppend(cfg) == cfg.policy = "append"

shouldName(cfg) == cfg.name /= <<>>
shouldVersion(cfg) == cfg.version /= <<>>
shouldSupplier(cfg) == cfg.supplier.name /= <<>> \/ cfg.supplier.value /= <<>>
shouldAuthors(cfg) == cfg.authors /= <<>>
shouldPurl(cfg) == cfg.purl /= <<>>
shouldCpe(cfg) == cfg.cpe /= <<>>
shouldLicenses(cfg) == cfg.licenses /= <<>>
shouldHashes(cfg) == cfg.hashes /= <<>>
shouldCopyRight(cfg) == cfg.copyright /= <<>>
shouldLifeCycle(cfg) == cfg.lifecycles /= <<>>
shouldDescription(cfg) == cfg.description /= <<>>
shouldRepository(cfg) == cfg.repository /= <<>>
shouldTyp(cfg) == cfg.typ /= <<>>

----------------------------------------------------------------------------
(* Results of a handler: the document it leaves, the error it returns,     *)
(* and whether it dereferenced the nil d.pkg (a Go run-time panic).        *)

Ok(b) == [bom |-> b, err |-> "nil", panic |-> FALSE]
Err(b, e) == [bom |-> b, err |-> e, panic |-> FALSE]
NilDeref(b) == [bom |-> b, err |-> "panic", panic |-> TRUE]

\* &spdx.CreationInfo{}
EmptyCreationInfo ==
    [isNil |-> FALSE, Creators |-> NilSlice, Created |-> 0, CreatorComment |-> <<>>]
NilCreationInfo ==
    [isNil |-> TRUE, Creators |-> NilSlice, Created |-> 0, CreatorComment |-> <<>>]

NilSupplier == [isNil |-> TRUE, SupplierType |-> "", Supplier |-> <<>>]

----------------------------------------------------------------------------
(* Scalar component fields *)

name(b, p, cfg) ==
    IF ~shouldName(cfg) THEN Err(b, "errNoConfiguration")
    ELSE IF cfg.search.subject = "document" THEN Err(b, "errNotSupported")
    ELSE IF p = 0 THEN NilDeref(b)
    ELSE IF onMissing(cfg)
         THEN (IF b.Packages[p].PackageName = <<>>
               THEN Ok([b EXCEPT !.Packages[p].PackageName = cfg.name])
               ELSE Ok(b))
         ELSE Ok([b EXCEPT !.Packages[p].PackageName = cfg.name])

version(b, p, cfg) ==
    IF ~shouldVersion(cfg) THEN Err(b, "errNoConfiguration")
    ELSE IF cfg.search.subject = "document" THEN Err(b, "errNotSupported")
    ELSE IF p = 0 THEN NilDeref(b)
    ELSE IF onMissing(cfg)
         THEN (IF b.Packages[p].PackageVersion = <<>>
               THEN Ok([b EXCEPT !.Packages[p].PackageVersion = cfg.version])
               ELSE Ok(b))
         ELSE Ok([b EXCEPT !.Packages[p].PackageVersion = cfg.version])

supplier(b, p, cfg) ==
    IF ~shouldSupplier(cfg) THEN Err(b, "errNoConfiguration")
    ELSE IF cfg.search.subject = "document" THEN Err(b, "errNotSupported")
    ELSE LET sup == [isNil |-> FALSE, SupplierType |-> "Organization",
                     Supplier |-> SprintfParen(cfg.supplier.name, cfg.supplier.value)]
         IN IF p = 0 THEN NilDeref(b)
            ELSE IF onMissing(cfg)
                 THEN (IF b.Packages[p].PackageSupplier.isNil
                       THEN Ok([b EXCEPT !.Packages[p].PackageSupplier = sup])
                       ELSE Ok(b))
                 ELSE Ok([b EXCEPT !.Packages[p].PackageSupplier = sup])

copyright(b, p, cfg) ==
    IF ~shouldCopyRight(cfg) THEN Err(b, "errNoConfiguration")
    ELSE IF cfg.search.subject = "document" THEN Err(b, "errNotSupported")
    ELSE IF p = 0 THEN NilDeref(b)
    ELSE IF onMissing(cfg)
         THEN (IF b.Packages[p].PackageCopyrightText = <<>>
               THEN Ok([b EXCEPT !.Packages[p].PackageCopyrightText = cfg.copyright])
               ELSE Ok(b))
         ELSE Ok([b EXCEPT !.Packages[p].PackageCopyrightText = cfg.copyright])

description(b, p, cfg) ==
    IF ~shouldDescription(cfg) THEN Err(b, "errNoConfiguration")
    ELSE IF cfg.search.subject = "document"
         THEN (IF onMissing(cfg) /\ b.DocumentComment /= <<>>
               THEN Ok(b)
               ELSE Ok([b EXCEPT !.DocumentComment = cfg.description]))
    ELSE IF p = 0 THEN NilDeref(b)
    ELSE IF onMissing(cfg) /\ b.Packages[p].PackageDescription /= <<>>
         THEN Ok(b)
         ELSE Ok([b EXCEPT !.Packages[p].PackageDescription = cfg.description])

repository(b, p, cfg) ==
    IF ~shouldRepository(cfg) THEN Err(b, "errNoConfiguration")
    ELSE IF cfg.search.subject = "document" THEN Err(b, "errNotSupported")
    ELSE IF p = 0 THEN NilDeref(b)
    ELSE IF onMissing(cfg)
         THEN (IF b.Packages[p].PackageDownloadLocation = <<>>
               THEN Ok([b EXCEPT !.Packages[p].PackageDownloadLocation = cfg.repository])
               ELSE Ok(b))
         ELSE Ok([b EXCEPT !.Packages[p].PackageDownloadLocation = cfg.repository])

\* the closed vocabulary of primary purposes, keyed by the lower-cased name
spdx_strings_to_types(key) ==
    IF key = <<"l","i","b","r","a","r","y">> THEN <<"L","I","B","R","A","R","Y">>
    ELSE IF key = <<"f","i","l","e">> THEN <<"F","I","L","E">>
    ELSE <<>>

typ(b, p, cfg) ==
    IF ~shouldTyp(cfg) THEN Err(b, "errNoConfiguration")
    ELSE IF cfg.search.subject = "document" THEN Err(b, "errNotSupported")
    ELSE LET purpose == spdx_strings_to_types(ToLower(cfg.typ))
         IN IF purpose = <<>> THEN Err(b, "errInvalidInput")
            ELSE IF p = 0 THEN NilDeref(b)
            ELSE IF onMissing(cfg)
                 THEN (IF b.Packages[p].PrimaryPackagePurpose = <<>>
                       THEN Ok([b EXCEPT !.Packages[p].PrimaryPackagePurpose = purpose])
                       ELSE Ok(b))
                 ELSE Ok([b EXCEPT !.Packages[p].PrimaryPackagePurpose = purpose])

\* spdxConstructLicenses: the configured license expression
spdxConstructLicenses(b, cfg) == cfg.licenses

licenses(b, p, cfg) ==
    IF ~shouldLicenses(cfg) THEN Err(b, "errNoConfiguration")
    ELSE LET license == spdxConstructLicenses(b, cfg)
         IN IF cfg.search.subject = "document"
            THEN (IF onMissing(cfg) /\ b.DataLicense /= <<>>
                  THEN Ok(b)
                  ELSE Ok([b EXCEPT !.DataLicense = license]))
            ELSE IF p = 0 THEN NilDeref(b)
            ELSE IF onMissing(cfg) /\ b.Packages[p].PackageLicenseConcluded /= <<>>
                 THEN Ok(b)
                 ELSE Ok([b EXCEPT !.Packages[p].PackageLicenseConcluded = license])

----------------------------------------------------------------------------
(* List fields of the document: authors *)

Author(a) == [CreatorType |-> "Person", Creator |-> SprintfParen(a.name, a.value)]

authors(b, p, cfg) ==
    IF ~shouldAuthors(cfg) THEN Err(b, "errNoConfiguration")
    ELSE IF cfg.search.subject /= "document" THEN Err(b, "errNotSupported")
    ELSE LET auths == Slice([i \in 1..Len(cfg.authors) |-> Author(cfg.authors[i])])
             fresh == [EmptyCreationInfo EXCEPT !.Creators = auths]
         IN IF onMissing(cfg)
            THEN (IF b.CreationInfo.isNil
                  THEN Ok([b EXCEPT !.CreationInfo = fresh])
                  ELSE IF b.CreationInfo.Creators.isNil
                  THEN Ok([b EXCEPT !.CreationInfo.Creators = auths])
                  ELSE Ok(b))
            ELSE IF onAppend(cfg)
            THEN (IF b.CreationInfo.isNil
                  THEN Ok([b EXCEPT !.CreationInfo = fresh])
                  ELSE IF b.CreationInfo.Creators.isNil
                  THEN Ok([b EXCEPT !.CreationInfo.Creators = auths])
                  ELSE Ok([b EXCEPT !.CreationInfo.Creators =
                                        GoAppend(b.CreationInfo.Creators, auths.elems)]))
            ELSE (IF b.CreationInfo.isNil
                  THEN Ok([b EXCEPT !.CreationInfo = fresh])
                  ELSE Ok([b EXCEPT !.CreationInfo.Creators = auths]))

----------------------------------------------------------------------------
(* External references of the component: purl and cpe *)

RefPurl == <<"p","u","r","l">>
RefCpe == <<"c","p","e","2","3","T","y","p","e">>

\* the loop that sets foundPurl / foundCpe
foundRef(refs, refType) ==
    \E i \in 1..Len(refs.elems) : refs.elems[i].RefType = refType

\* lo.Reject(refs, func(x) bool { return strings.ToLower(x.RefType) == literal })
rejectRefs(refs, literal) ==
    SelectSeq(refs, LAMBDA x : ToLower(x.RefType) /= literal)

\* the three policy branches shared by purl() and cpe(): ref is the new
\* reference, found the result of the scan, literal the string the
\* overwrite branch compares the lower-cased RefType with
updateRefs(refs, ref, found, literal, cfg) ==
    IF onMissing(cfg)
    THEN (IF ~found THEN Slice(refs.elems \o <<ref>>) ELSE refs)
    ELSE IF onAppend(cfg)
    THEN Slice(refs.elems \o <<ref>>)
    ELSE IF refs.isNil
    THEN Slice(<<ref>>)
    ELSE Slice(rejectRefs(refs.elems, literal) \o <<ref>>)

\* purl as it would be if the document subject were served by the first
\* component of the document
purlOnFirstComponent(b, p, cfg) ==
    IF ~shouldPurl(cfg) THEN Err(b, "errNoConfiguration")
    ELSE LET ref == [Category |-> "PACKAGE-MANAGER", RefType |-> RefPurl, Locator |-> cfg.purl]
             q == IF p = 0 THEN 1 ELSE p
             refs == b.Packages[q].PackageExternalReferences
             foundPurl == foundRef(refs, <<"p","u","r","l">>)
         IN Ok([b EXCEPT !.Packages[q].PackageExternalReferences =
                   updateRefs(refs, ref, foundPurl, <<"p","u","r","l">>, cfg)])

purl(b, p, cfg) ==
    IF ~shouldPurl(cfg) THEN Err(b, "errNoConfiguration")
    ELSE IF cfg.search.subject = "document" THEN Err(b, "errNotSupported")
    ELSE LET ref == [Category |-> "PACKAGE-MANAGER", RefType |-> RefPurl, Locator |-> cfg.purl]
         IN IF p = 0 THEN NilDeref(b)
            ELSE LET refs == b.Packages[p].PackageExternalReferences
                     foundPurl == foundRef(refs, <<"p","u","r","l">>)
                 IN Ok([b EXCEPT !.Packages[p].PackageExternalReferences =
                           updateRefs(refs, ref, foundPurl, <<"p","u","r","l">>, cfg)])

cpe(b, p, cfg) ==
    IF ~shouldCpe(cfg) THEN Err(b, "errNoConfiguration")
    ELSE IF cfg.search.subject = "document" THEN Err(b, "errNotSupported")
    ELSE LET ref == [Category |-> "SECURITY", RefType |-> RefCpe, Locator |-> cfg.cpe]
         IN IF p = 0 THEN NilDeref(b)
            ELSE LET refs == b.Packages[p].PackageExternalReferences
                     foundCpe == foundRef(refs, <<"c","p","e","2","3","T","y","p","e">>)
                 IN Ok([b EXCEPT !.Packages[p].PackageExternalReferences =
                           updateRefs(refs, ref, foundCpe,
                                      <<"c","p","e","2","3","T","y","p","e">>, cfg)])

----------------------------------------------------------------------------
(* Checksums of the component *)

\* spdxConstructHashes: the configured checksums whose value is not empty
spdxConstructHashes(b, cfg) ==
    Slice([i \in 1..Len(SelectSeq(cfg.hashes, LAMBDA h : h.value /= <<>>)) |->
              LET h == SelectSeq(cfg.hashes, LAMBDA x : x.value /= <<>>)[i]
              IN [Algorithm |-> h.name, Value |-> h.value]])

hashes(b, p, cfg) ==
    IF ~shouldHashes(cfg) THEN Err(b, "errNoConfiguration")
    ELSE IF cfg.search.subject = "document" THEN Err(b, "errNotSupported")
    ELSE LET hs == spdxConstructHashes(b, cfg)
         IN IF p = 0 THEN NilDeref(b)
            ELSE LET cur == b.Packages[p].PackageChecksums
                 IN IF onMissing(cfg)
                    THEN (IF cur.isNil
                          THEN Ok([b EXCEPT !.Packages[p].PackageChecksums = hs])
                          ELSE Ok(b))
                    ELSE IF onAppend(cfg)
                    THEN (IF cur.isNil
                          THEN Ok([b EXCEPT !.Packages[p].PackageChecksums = hs])
                          ELSE Ok([b EXCEPT !.Packages[p].PackageChecksums =
                                                GoAppend(cur, hs.elems)]))
                    ELSE Ok([b EXCEPT !.Packages[p].PackageChecksums = hs])

----------------------------------------------------------------------------
(* Creators of the document: tools *)

\* remove a creator by name
removeCreator(creators, creatorName) ==
    SelectSeq(creators, LAMBDA x : ~HasPrefix(x.Creator, creatorName))

\* ensure no duplicate creator
creatorExists(creators, creator) ==
    \E i \in 1..Len(creators) :
        /\ creators[i].Creator = creator.Creator
        /\ creators[i].CreatorType = creator.CreatorType

\* spdxUniqueCreators as it would be if the result were built from an empty
\* slice: the creators it found are lost
spdxUniqueCreatorsDropsExisting(existing, newCreators) ==
    LET creatorSet == {existing[i].Creator : i \in 1..Len(existing)}
    IN SelectSeq(newCreators, LAMBDA x : x.Creator \notin creatorSet)

\* ensure unique creators: creatorSet holds the display strings of
\* `existing` as it was passed, and is not extended by the loop
spdxUniqueCreators(existing, newCreators) ==
    LET creatorSet == {existing[i].Creator : i \in 1..Len(existing)}
    IN existing \o SelectSeq(newCreators, LAMBDA x : x.Creator \notin creatorSet)

\* spdxConstructTools: one Tool creator "name-value" per configured tool
spdxConstructTools(b, cfg) ==
    [i \in 1..Len(cfg.tools) |->
        [CreatorType |-> "Tool",
         Creator |-> SprintfDash(cfg.tools[i].name, cfg.tools[i].value)]]

\* the default sbomasm tool
defaultSbomasmTool ==
    [CreatorType |-> "Tool", Creator |-> SprintfDash(SBOMASM, SBOMASM_VERSION)]

\* the loop that looks for an explicit sbomasm tool among newTools
explicitSbomasm(newTools) ==
    \E i \in 1..Len(newTools) : HasPrefix(newTools[i].Creator, SBOMASM)

selfTool(newTools) ==
    IF explicitSbomasm(newTools)
    THEN newTools[CHOOSE i \in 1..Len(newTools) :
                      /\ HasPrefix(newTools[i].Creator, SBOMASM)
                      /\ \A j \in 1..(i - 1) : ~HasPrefix(newTools[j].Creator, SBOMASM)]
    ELSE defaultSbomasmTool

\* the onMissing loop: each new tool is added unless creatorExists finds it
RECURSIVE addMissingTools(_, _)
addMissingTools(creators, newTools) ==
    IF newTools = <<>> THEN creators
    ELSE addMissingTools(
             IF ~creatorExists(creators, Head(newTools))
             THEN spdxUniqueCreators(creators, <<Head(newTools)>>)
             ELSE creators,
             Tail(newTools))

\* the self-stamp that ends every policy branch
stampSelf(creators, sbomasmTool) ==
    IF ~creatorExists(creators, sbomasmTool)
    THEN spdxUniqueCreators(creators, <<sbomasmTool>>)
    ELSE creators

\* the creators list tools() leaves, from the (non-nil) list it found
toolsCreators(creators, newTools, cfg) ==
    LET sbomasmTool == selfTool(newTools)
        kept == IF explicitSbomasm(newTools)
                THEN removeCreator(creators, SBOMASM)
                ELSE creators
    IN IF onMissing(cfg)
       THEN stampSelf(addMissingTools(kept, newTools), sbomasmTool)
       ELSE stampSelf(spdxUniqueCreators(kept, newTools), sbomasmTool)

tools(b, p, cfg) ==
    LET ci == IF b.CreationInfo.isNil THEN EmptyCreationInfo ELSE b.CreationInfo
        newTools == spdxConstructTools(b, cfg)
    IN Ok([b EXCEPT !.CreationInfo =
              [ci EXCEPT !.Creators =
                  Slice(toolsCreators(ci.Creators.elems, newTools, cfg))]])

----------------------------------------------------------------------------
(* Creation metadata: lifecycle stages and timestamp *)

LifecyclePrefix == <<"l","i","f","e","c","y","c","l","e",":"," ">>

lifeCycles(b, p, cfg) ==
    IF ~shouldLifeCycle(cfg) THEN Err(b, "errNoConfiguration")
    ELSE IF cfg.search.subject /= "document" THEN Err(b, "errNotSupported")
    ELSE LET lifecycles == LifecyclePrefix \o JoinComma(cfg.lifecycles)
             ci == IF b.CreationInfo.isNil THEN EmptyCreationInfo ELSE b.CreationInfo
         IN IF onMissing(cfg) /\ ci.CreatorComment /= <<>>
            THEN Ok([b EXCEPT !.CreationInfo = ci])
            ELSE Ok([b EXCEPT !.CreationInfo = [ci EXCEPT !.CreatorComment = lifecycles]])

\* utcNowTime() is the number of the run: a later run reads a later clock
timeStamp(b, now) ==
    LET ci == IF b.CreationInfo.isNil THEN EmptyCreationInfo ELSE b.CreationInfo
    IN Ok([b EXCEPT !.CreationInfo = [ci EXCEPT !.Created = now]])

----------------------------------------------------------------------------
(* The subject resolver and the construction of the edit run *)

DescribedIdx(b) ==
    {i \in 1..Len(b.Packages) :
        \E k \in 1..Len(b.Relationships) :
            /\ b.Relationships[k].Relationship = "DESCRIBES"
            /\ b.Relationships[k].RefB = b.Packages[i].PackageSPDXIdentifier}

MatchingIdx(b, cfg) ==
    {i \in 1..Len(b.Packages) :
        /\ b.Packages[i].PackageName = cfg.search.name
        /\ (cfg.search.version = <<>> \/ b.Packages[i].PackageVersion = cfg.search.version)}

\* spdxFindPkg: the index of the component found, 0 when it returns an error
spdxFindPkg(b, cfg, primary) ==
    IF primary
    THEN (IF Cardinality(DescribedIdx(b)) = 1
          THEN CHOOSE i \in DescribedIdx(b) : TRUE
          ELSE 0)
    ELSE (IF MatchingIdx(b, cfg) /= {}
          THEN CHOOSE i \in MatchingIdx(b, cfg) : \A j \in MatchingIdx(b, cfg) : i <= j
          ELSE 0)

\* the doc.pkg that NewSpdxEditDoc leaves
resolvePkg(b, cfg) ==
    IF cfg.search.subject = "primary-component" THEN spdxFindPkg(b, cfg, TRUE)
    ELSE IF cfg.search.subject = "component-name-version" THEN spdxFindPkg(b, cfg, FALSE)
    ELSE 0

----------------------------------------------------------------------------
(* The documents and configurations the edit runs start from *)

CreatorCur == [CreatorType |-> "Tool", Creator |-> SprintfDash(SBOMASM, SBOMASM_VERSION)]
CreatorOld == [CreatorType |-> "Tool", Creator |-> SprintfDash(SBOMASM, <<"0",".","1",".","8">>)]
CreatorTrivy == [CreatorType |-> "Tool", Creator |-> SprintfDash(<<"t","r","i","v","y">>, <<"1">>)]
CreatorAl == [CreatorType |-> "Person", Creator |-> SprintfParen(<<"a","l">>, <<"a">>)]

CreatorPool == {CreatorCur, CreatorOld, CreatorTrivy, CreatorAl}

CreationInfos ==
    {NilCreationInfo, EmptyCreationInfo} \cup
    {[EmptyCreationInfo EXCEPT !.Creators = Slice(l)] : l \in SeqsUpTo(CreatorPool, MaxCreators)}

ToolPool == {[name |-> SBOMASM, value |-> <<"0",".","2",".","0">>],
             [name |-> <<"t","r","i","v","y">>, value |-> <<"1">>]}

AuthorLists == {<<[name |-> <<"a","l">>, value |-> <<"a">>]>>,
                <<[name |-> <<"b","o">>, value |-> <<"b">>],
                  [name |-> <<"a","l">>, value |-> <<"a">>]>>}

RefPool == {[Category |-> "PACKAGE-MANAGER", RefType |-> RefPurl, Locator |-> <<"o">>],
            [Category |-> "PACKAGE-MANAGER", RefType |-> <<"P","U","R","L">>, Locator |-> <<"o">>],
            [Category |-> "SECURITY", RefType |-> RefCpe, Locator |-> <<"o">>],
            [Category |-> "OTHER", RefType |-> <<"s","w","i","d">>, Locator |-> <<"o">>]}

RefLists == {NilSlice} \cup {Slice(l) : l \in SeqsUpTo(RefPool, MaxRefs)}

\* a component with no field set, as a loader leaves it
EmptyPkg(id) ==
    [PackageSPDXIdentifier |-> id, PackageName |-> <<>>, PackageVersion |-> <<>>,
     PackageSupplier |-> NilSupplier, PackageExternalReferences |-> NilSlice,
     PackageLicenseConcluded |-> <<>>, PackageChecksums |-> NilSlice,
     PackageCopyrightText |-> <<>>, PackageDescription |-> <<>>,
     PackageDownloadLocation |-> <<>>, PrimaryPackagePurpose |-> <<>>]

\* a component with every field set
FullPkg(id) ==
    [PackageSPDXIdentifier |-> id, PackageName |-> <<"w">>, PackageVersion |-> <<"1">>,
     PackageSupplier |-> [isNil |-> FALSE, SupplierType |-> "Organization",
                          Supplier |-> SprintfParen(<<"o">>, <<"o">>)],
     PackageExternalReferences |-> Slice(<<>>),
     PackageLicenseConcluded |-> <<"M","I","T">>,
     PackageChecksums |-> Slice(<<[Algorithm |-> <<"M","D","5">>, Value |-> <<"0">>]>>),
     PackageCopyrightText |-> <<"o">>, PackageDescription |-> <<"o">>,
     PackageDownloadLocation |-> <<"o">>, PrimaryPackagePurpose |-> <<"F","I","L","E">>]

DescribesA == [RefA |-> <<"D","O","C","U","M","E","N","T">>, RefB |-> IdA,
               Relationship |-> "DESCRIBES"]

\* the component lists and relationships of the documents under edit: the
\* subject component alone or beside another one, described or not
DocShapes ==
    {[Packages |-> ps, Relationships |-> rs] :
        ps \in {<<EmptyPkg(IdA)>>, <<FullPkg(IdA)>>, <<FullPkg(IdA), FullPkg(IdB)>>},
        rs \in {<<>>, <<DescribesA>>}}

Bom(ci, lic, cmt, shape) ==
    [CreationInfo |-> ci, DataLicense |-> lic, DocumentComment |-> cmt,
     Packages |-> shape.Packages, Relationships |-> shape.Relationships]

Subjects == {"document", "primary-component", "component-name-version"}
Policies == {"missing", "append", "overwrite"}

\* a run with nothing configured
NoCfg(subject, policy) ==
    [search |-> [subject |-> subject, name |-> <<"w">>, version |-> <<>>],
     policy |-> policy,
     name |-> <<>>, version |-> <<>>, supplier |-> [name |-> <<>>, value |-> <<>>],
     authors |-> <<>>, purl |-> <<>>, cpe |-> <<>>, licenses |-> <<>>, hashes |-> <<>>,
     tools |-> <<>>, copyright |-> <<>>, lifecycles |-> <<>>, description |-> <<>>,
     repository |-> <<>>, typ |-> <<>>]

\* a run with every scalar field, the hashes and the lifecycle stages configured
ScalarCfg(subject, policy, typName) ==
    [NoCfg(subject, policy) EXCEPT
        !.name = <<"n">>, !.version = <<"2">>,
        !.supplier = [name |-> <<"s">>, value |-> <<"u">>],
        !.licenses = <<"B","S","D">>,
        !.hashes = <<[name |-> <<"S","H","A","1">>, value |-> <<"1">>],
                     [name |-> <<"M","D","5">>, value |-> <<>>]>>,
        !.copyright = <<"c">>, !.lifecycles = <<<<"b","u","i","l","d">>, <<"r","u","n">>>>,
        !.description = <<"d">>, !.repository = <<"r">>, !.typ = typName]

TypNames == {<<"L","i","b","r","a","r","y">>, <<"b","o","g","u","s">>}

\* the families of starting states: scalar fields, external references,
\* tools, authors
InitScalars ==
    \E shape \in DocShapes, full \in BOOLEAN, s \in Subjects, pol \in Policies, t \in TypNames :
        /\ bom = (IF full
                  THEN Bom([EmptyCreationInfo EXCEPT !.Creators = Slice(<<CreatorCur>>),
                                                     !.CreatorComment = <<"o">>],
                           <<"C","C","0">>, <<"o">>, shape)
                  ELSE Bom(NilCreationInfo, <<>>, <<>>, shape))
        /\ c = ScalarCfg(s, pol, t)

InitRefs ==
    \E refs \in RefLists, withDesc \in BOOLEAN, s \in Subjects, pol \in Policies,
       which \in {"purl", "cpe", "both"} :
        /\ bom = Bom(EmptyCreationInfo, <<>>, <<>>,
                     [Packages |-> <<[FullPkg(IdA) EXCEPT !.PackageExternalReferences = refs],
                                     FullPkg(IdB)>>,
                      Relationships |-> IF withDesc THEN <<DescribesA>> ELSE <<>>])
        /\ c = [NoCfg(s, pol) EXCEPT
                   !.purl = IF which \in {"purl", "both"} THEN <<"p">> ELSE <<>>,
                   !.cpe = IF which \in {"cpe", "both"} THEN <<"c">> ELSE <<>>]

InitTools ==
    \E ci \in CreationInfos, ts \in SeqsUpTo(ToolPool, MaxTools), pol \in Policies :
        /\ bom = Bom(ci, <<>>, <<>>,
                     [Packages |-> <<FullPkg(IdA)>>, Relationships |-> <<DescribesA>>])
        /\ c = [NoCfg("document", pol) EXCEPT !.tools = ts]

InitAuthors ==
    \E ci \in CreationInfos, as \in AuthorLists, pol \in Policies,
       s \in {"document", "primary-component"} :
        /\ bom = Bom(ci, <<>>, <<>>,
                     [Packages |-> <<FullPkg(IdA)>>, Relationships |-> <<DescribesA>>])
        /\ c = [NoCfg(s, pol) EXCEPT !.authors = as]

\* a Person creator whose display string is the running tool's
CreatorSelfPerson == [CreatorType |-> "Person", Creator |-> SprintfDash(SBOMASM, SBOMASM_VERSION)]

\* the creator lists of the documents edited as a whole with purl configured
PurlDocCreators == SeqsUpTo(CreatorPool \cup {CreatorSelfPerson}, MaxCreators)

\* the fifth family: subject=document with purl (and cpe) configured, on a
\* document without creation metadata, or with creation metadata whose
\* creator list is absent or holds creators of the pool; the data license,
\* the comments and the timestamp are empty or set
InitPurlOnDocument ==
    \E kind \in {"nil", "nilCreators", "creators"}, l \in PurlDocCreators, full \in BOOLEAN,
       withRefs \in BOOLEAN, pol \in Policies, which \in {"purl", "both"} :
        /\ kind /= "creators" => l = <<>>
        /\ kind = "nil" => ~full
        /\ bom = Bom(IF kind = "nil" THEN NilCreationInfo
                     ELSE [EmptyCreationInfo EXCEPT
                              !.Creators = IF kind = "creators" THEN Slice(l) ELSE NilSlice,
                              !.CreatorComment = IF full THEN <<"o">> ELSE <<>>],
                     IF full THEN <<"C","C","0">> ELSE <<>>,
                     IF full THEN <<"o">> ELSE <<>>,
                     [Packages |-> <<[FullPkg(IdA) EXCEPT !.PackageExternalReferences =
                                         IF withRefs
                                         THEN Slice(<<[Category |-> "PACKAGE-MANAGER",
                                                       RefType |-> RefPurl, Locator |-> <<"o">>],
                                                      [Category |-> "SECURITY",
                                                       RefType |-> RefCpe, Locator |-> <<"o">>]>>)
                                         ELSE NilSlice],
                                     FullPkg(IdB)>>,
                      Relationships |-> <<DescribesA>>])
        /\ c = [NoCfg("document", pol) EXCEPT
                   !.purl = <<"p">>,
                   !.cpe = IF which = "both" THEN <<"c">> ELSE <<>>]

\* the merge engine is idle while a document is edited
MergeIdle ==
    /\ in = <<>> /\ in0 = <<>> /\ out = <<>> /\ pkgs = <<>> /\ deps = <<>>
    /\ mpc = "idle" /\ di = 0 /\ pi = 0 /\ uuids = 0 /\ rootPackageID = <<>>
    /\ newIds = <<>> /\ failed = <<>>

InitEdit ==
    /\ (InitScalars \/ InitRefs \/ InitTools \/ InitAuthors \/ InitPurlOnDocument)
    /\ bom0 = bom
    /\ pkg = 0 /\ epc = 0 /\ run = 0 /\ lastErr = "nil" /\ notSup = {}
    /\ MergeIdle

----------------------------------------------------------------------------
(* update(): one action per entry of updateFuncs, in table order *)

\* NewSpdxEditDoc, for the first run and for each further run on the
\* document the previous run left
NewSpdxEditDoc ==
    /\ epc = 0 \/ (epc = 16 /\ run < MaxRuns)
    /\ pkg' = resolvePkg(bom, c)
    /\ epc' = 1
    /\ run' = run + 1
    /\ lastErr' = "nil"
    /\ notSup' = {}
    /\ UNCHANGED <<bom, bom0, c>>
    /\ UNCHANGED mergeVars

\* one iteration of the loop of update(): a nil dereference ends the run
Step(k, field, res) ==
    /\ epc = k
    /\ bom' = res.bom
    /\ epc' = IF res.panic THEN 17 ELSE k + 1
    /\ lastErr' = res.err
    /\ notSup' = IF res.err = "errNotSupported" THEN notSup \cup {field} ELSE notSup
    /\ UNCHANGED <<bom0, pkg, c, run>>
    /\ UNCHANGED mergeVars

Name == Step(1, "name", name(bom, pkg, c))
Version == Step(2, "version", version(bom, pkg, c))
Supplier == Step(3, "supplier", supplier(bom, pkg, c))
Authors == Step(4, "authors", authors(bom, pkg, c))
Purl == Step(5, "purl", purl(bom, pkg, c))
Cpe == Step(6, "cpe", cpe(bom, pkg, c))
Licenses == Step(7, "licenses", licenses(bom, pkg, c))
Hashes == Step(8, "hashes", hashes(bom, pkg, c))
Tools == Step(9, "tools", tools(bom, pkg, c))
Copyright == Step(10, "copyright", copyright(bom, pkg, c))
LifeCycles == Step(11, "lifeCycles", lifeCycles(bom, pkg, c))
Description == Step(12, "description", description(bom, pkg, c))
Repository == Step(13, "repository", repository(bom, pkg, c))
Typ == Step(14, "type", typ(bom, pkg, c))
TimeStamp == Step(15, "timeStamp", timeStamp(bom, run))

NextEdit ==
    \/ NewSpdxEditDoc
    \/ Name \/ Version \/ Supplier \/ Authors \/ Purl \/ Cpe \/ Licenses \/ Hashes
    \/ Tools \/ Copyright \/ LifeCycles \/ Description \/ Repository \/ Typ \/ TimeStamp

SpecEdit == InitEdit /\ [][NextEdit]_vars

----------------------------------------------------------------------------
(* Properties of the edit engine *)

\* the creators of the document, the empty list when there are none
CreatorsOf(b) == b.CreationInfo.Creators.elems

\* positions of the external references of kind refType of component i
KindIdx(b, i, refType) ==
    {k \in 1..Len(b.Packages[i].PackageExternalReferences.elems) :
        b.Packages[i].PackageExternalReferences.elems[k].RefType = refType}

\* the handler at position k of updateFuncs was the last to run, and returned nil
Applied(k) == epc = k + 1 /\ lastErr = "nil"

\* after an overwrite by the handler of kind refType, the component holds
\* exactly one reference of that kind, and it carries the configured locator
OverwriteExclusive(refType, locator) ==
    /\ Cardinality(KindIdx(bom, pkg, refType)) = 1
    /\ \A k \in KindIdx(bom, pkg, refType) :
           bom.Packages[pkg].PackageExternalReferences.elems[k].Locator = locator

\* C1: after purl() or cpe() ran under the overwrite policy, the component
\* has exactly one external reference of that exact kind (RefType "purl",
\* RefType "cpe23Type"): the new one, every earlier one of the kind is gone.
C1_OverwriteExclusivity ==
    /\ (Applied(5) /\ c.policy = "overwrite") => OverwriteExclusive(RefPurl, c.purl)
    /\ (Applied(6) /\ c.policy = "overwrite") => OverwriteExclusive(RefCpe, c.cpe)

\* the same for purl() alone
C1_PurlHalf ==
    (Applied(5) /\ c.policy = "overwrite") => OverwriteExclusive(RefPurl, c.purl)

\* positions of the creators equal to the running tool's Tool entry
SelfIdx(b) == {i \in 1..Len(CreatorsOf(b)) : CreatorsOf(b)[i] = defaultSbomasmTool}

\* no entry occurs twice in the list
NoRepeats(s) == \A i, j \in 1..Len(s) : s[i] = s[j] => i = j

\* C5: when an edit run has completed (the first or a repeated one), the
\* creator list holds exactly one Tool creator "sbomasm-0.1.9"; stated for
\* the documents that were loaded with no entry twice in their creator list.
C5_ExactlyOneSelfStamp ==
    (epc = 16 /\ NoRepeats(CreatorsOf(bom0))) => Cardinality(SelfIdx(bom)) = 1

\* the name of a tool "name-version": the text before the last "-"
RECURSIVE ToolName(_)
ToolName(s) ==
    IF s = <<>> THEN <<>>
    ELSE IF s[Len(s)] = "-" THEN SubSeq(s, 1, Len(s) - 1)
    ELSE ToolName(SubSeq(s, 1, Len(s) - 1))

\* no two Tool creators of the list have the same tool name
NoDupToolNames(creators) ==
    \A i, j \in 1..Len(creators) :
        (/\ i /= j
         /\ creators[i].CreatorType = "Tool"
         /\ creators[j].CreatorType = "Tool")
        => ToolName(creators[i].Creator) /= ToolName(creators[j].Creator)

\* C6: the tools handler never leaves two Tool creators with the same tool
\* name, even when the list it found had no two such entries: a stale
\* self-entry is removed before the current one is inserted.
C6_NoTwoToolsOfOneName ==
    [][(epc = 9 /\ epc' = 10 /\ NoDupToolNames(CreatorsOf(bom)))
         => NoDupToolNames(CreatorsOf(bom'))]_vars

\* every element of sequence s occurs in sequence t
SubsetSeq(s, t) == \A i \in 1..Len(s) : \E j \in 1..Len(t) : t[j] = s[i]

\* the lists of the components are kept: external references and checksums
PkgListsKept(b1, b2) ==
    \A i \in 1..Len(b1.Packages) :
        /\ SubsetSeq(b1.Packages[i].PackageExternalReferences.elems,
                     b2.Packages[i].PackageExternalReferences.elems)
        /\ SubsetSeq(b1.Packages[i].PackageChecksums.elems,
                     b2.Packages[i].PackageChecksums.elems)

\* a step of one of the handlers of a list field: authors, purl, cpe, hashes, tools
ListStep == epc \in {4, 5, 6, 8, 9} /\ epc' /= epc

\* C7 as stated: under the append policy every list-field handler leaves a
\* superset of the list it found, for tools also when a configured tool's
\* name starts with "sbomasm".
C7_AppendSuperset ==
    [][(ListStep /\ c.policy = "append")
         => (/\ SubsetSeq(CreatorsOf(bom), CreatorsOf(bom'))
             /\ PkgListsKept(bom, bom'))]_vars

\* C7 amended: the same, except that tools() with a configured tool whose
\* display string starts with "sbomasm" removes the earlier creators whose
\* display string starts with "sbomasm"; it keeps every other entry.
C7_AppendSupersetButStaleSelf ==
    [][(ListStep /\ c.policy = "append")
         => (/\ SubsetSeq(IF epc = 9 /\ explicitSbomasm(spdxConstructTools(bom, c))
                          THEN removeCreator(CreatorsOf(bom), SBOMASM)
                          ELSE CreatorsOf(bom),
                          CreatorsOf(bom'))
             /\ PkgListsKept(bom, bom'))]_vars

\* tools() has appended to a list that held the author "al (a)" and a
\* stale self-entry, with an sbomasm tool configured
C7_Witness ==
    /\ epc = 10 /\ c.policy = "append" /\ run = 1
    /\ explicitSbomasm(spdxConstructTools(bom, c))
    /\ \E i \in 1..Len(CreatorsOf(bom)) : CreatorsOf(bom)[i] = CreatorAl
    /\ ~\E i \in 1..Len(CreatorsOf(bom)) : CreatorsOf(bom)[i] = CreatorOld
    /\ Len(CreatorsOf(bom)) = 2

\* C8: with a component subject and no component resolved, the run does
\* not fail fatally: update() never stops at a nil dereference.
C8_NoFatalWithoutComponent ==
    (c.search.subject /= "document" /\ pkg = 0 /\ run >= 1) => epc /= 17

\* the handler at position k of updateFuncs, applied to document b
Handler(k, b) ==
    CASE k = 1 -> name(b, pkg, c)
      [] k = 2 -> version(b, pkg, c)
      [] k = 3 -> supplier(b, pkg, c)
      [] k = 4 -> authors(b, pkg, c)
      [] k = 5 -> purl(b, pkg, c)
      [] k = 6 -> cpe(b, pkg, c)
      [] k = 7 -> licenses(b, pkg, c)
      [] k = 8 -> hashes(b, pkg, c)
      [] k = 9 -> tools(b, pkg, c)
      [] k = 10 -> copyright(b, pkg, c)
      [] k = 11 -> lifeCycles(b, pkg, c)
      [] k = 12 -> description(b, pkg, c)
      [] k = 13 -> repository(b, pkg, c)
      [] k = 14 -> typ(b, pkg, c)

\* C9: once a field handler has run under the missing policy, running it
\* again with the same configuration changes nothing: twice is as once.
C9_MissingIdempotent ==
    (epc \in 2..15 /\ c.policy = "missing") => Handler(epc - 1, bom).bom = bom

\* the same for every handler but tools
C9_AllButTools ==
    (epc \in 2..15 /\ epc /= 10 /\ c.policy = "missing") => Handler(epc - 1, bom).bom = bom

\* the run edits the document as a whole and has the purl field configured
PurlOnDocument == c.search.subject = "document" /\ shouldPurl(c)

\* no field but purl and cpe is configured
OnlyRefsConfigured ==
    c = [NoCfg(c.search.subject, c.policy) EXCEPT !.purl = c.purl, !.cpe = c.cpe]

\* the creation metadata with an absent one read as the empty one
CreationInfoOf(b) == IF b.CreationInfo.isNil THEN EmptyCreationInfo ELSE b.CreationInfo

\* C12: when the first run of an edit with subject=document and purl
\* configured has completed, purl was reported as not supported and the
\* document is the document that was loaded.
C12_PurlOnDocumentNoChange ==
    (PurlOnDocument /\ epc = 16 /\ run = 1) =>
        /\ "purl" \in notSup
        /\ bom = bom0

\* the creator list of the loaded document has an entry, of any type, with
\* the display string of the running tool's entry
SelfTextLoaded ==
    \E i \in 1..Len(CreatorsOf(bom0)) : CreatorsOf(bom0)[i].Creator = defaultSbomasmTool.Creator

\* C12 as the code has it: in an edit with subject=document and only purl
\* (and cpe) configured, purl returns not-supported, and in the first run
\* the document is as loaded until tools runs; through every run the
\* components with their external references, the relationships, the data
\* license, the document comment and the creator comment stay as loaded;
\* a completed run has left creation metadata with a creator list, which is
\* the loaded list when that has an entry of any type with the display
\* string "sbomasm-0.1.9" and else the loaded list with Tool
\* "sbomasm-0.1.9" appended, and has set the timestamp to the time of the run.
C12_PurlOnDocumentOnlyStamps ==
    (PurlOnDocument /\ OnlyRefsConfigured) =>
        /\ epc \in 6..16 => "purl" \in notSup
        /\ epc = 6 => lastErr = "errNotSupported"
        /\ (epc \in 0..9 /\ run <= 1) => bom = bom0
        /\ bom.Packages = bom0.Packages
        /\ bom.Relationships = bom0.Relationships
        /\ bom.DataLicense = bom0.DataLicense
        /\ bom.DocumentComment = bom0.DocumentComment
        /\ CreationInfoOf(bom).CreatorComment = CreationInfoOf(bom0).CreatorComment
        /\ epc = 16 =>
              /\ ~bom.CreationInfo.isNil
              /\ ~bom.CreationInfo.Creators.isNil
              /\ CreatorsOf(bom) = (IF SelfTextLoaded
                                    THEN CreatorsOf(bom0)
                                    ELSE Append(CreatorsOf(bom0), defaultSbomasmTool))
              /\ bom.CreationInfo.Created = run

\* the first run of an edit with subject=document and purl configured has
\* completed on a document with a data license, comments, external
\* references on its first component and the one creator Person
\* "sbomasm-0.1.9"; purl was reported as not supported, the creator list is
\* as loaded, without the running tool's Tool entry, and the timestamp is not
C12_Witness ==
    /\ PurlOnDocument /\ OnlyRefsConfigured
    /\ epc = 16 /\ run = 1
    /\ "purl" \in notSup
    /\ bom0.Packages[1].PackageExternalReferences.elems /= <<>>
    /\ bom0.DataLicense /= <<>> /\ bom0.DocumentComment /= <<>>
    /\ bom0.CreationInfo.CreatorComment /= <<>>
    /\ CreatorsOf(bom0) = <<CreatorSelfPerson>>
    /\ CreatorsOf(bom) = CreatorsOf(bom0)
    /\ SelfIdx(bom) = {}
    /\ bom.CreationInfo /= bom0.CreationInfo

\* the same run on a document loaded without creation metadata: the run has
\* created it, with the running tool's Tool entry as its only creator
C12_WitnessAbsentMetadata ==
    /\ PurlOnDocument /\ OnlyRefsConfigured
    /\ epc = 16 /\ run = 1
    /\ "purl" \in notSup
    /\ bom0.CreationInfo.isNil
    /\ CreatorsOf(bom) = <<defaultSbomasmTool>>

----------------------------------------------------------------------------
(* Semantic versions (github.com/Masterminds/semver/v3), as initOutBom     *)
(* uses them: NewVersion, Collection's order, Version.String               *)

Digits == <<"0","1","2","3","4","5","6","7","8","9">>

IsDigit(ch) == \E i \in 1..10 : Digits[i] = ch
DigitVal(ch) == (CHOOSE i \in 1..10 : Digits[i] = ch) - 1

\* strconv: a non-empty string of digits to its number, and back
RECURSIVE Atoi(_)
Atoi(s) ==
    IF s = <<>> THEN 0
    ELSE 10 * Atoi(SubSeq(s, 1, Len(s) - 1)) + DigitVal(s[Len(s)])

RECURSIVE Itoa(_)
Itoa(n) ==
    IF n < 10 THEN <<Digits[n + 1]>>
    ELSE Itoa(n \div 10) \o <<Digits[(n % 10) + 1]>>

AllDigits(s) == s /= <<>> /\ \A i \in 1..Len(s) : IsDigit(s[i])

\* the parts of s between the dots
RECURSIVE SplitDots(_)
SplitDots(s) ==
    IF \E i \in 1..Len(s) : s[i] = "."
    THEN LET i == CHOOSE k \in 1..Len(s) : s[k] = "." /\ \A j \in 1..(k - 1) : s[j] /= "."
         IN <<SubSeq(s, 1, i - 1)>> \o SplitDots(SubSeq(s, i + 1, Len(s)))
    ELSE <<s>>

\* the position of the first character of s that is in the set S, 0 without one
FirstIdx(s, S) ==
    IF \E i \in 1..Len(s) : s[i] \in S
    THEN CHOOSE i \in 1..Len(s) : s[i] \in S /\ \A k \in 1..(i - 1) : s[k] \notin S
    ELSE 0

\* the characters of a prerelease or metadata segment, in byte order
AllowedChars == <<"-">> \o Digits \o UpperChars \o LowerChars

IsAllowed(ch) == \E i \in 1..Len(AllowedChars) : AllowedChars[i] = ch
ByteOf(ch) == CHOOSE i \in 1..Len(AllowedChars) : AllowedChars[i] = ch

\* dot-separated segments, none empty, of allowed characters only
ValidSegments(s) ==
    \A i \in 1..Len(SplitDots(s)) :
        /\ SplitDots(s)[i] /= <<>>
        /\ \A k \in 1..Len(SplitDots(s)[i]) : IsAllowed(SplitDots(s)[i][k])

\* validatePrerelease: a numeric segment of more than one digit does not
\* start with 0
validatePrerelease(s) ==
    \A i \in 1..Len(SplitDots(s)) :
        LET seg == SplitDots(s)[i]
        IN (AllDigits(seg) /\ Len(seg) > 1) => seg[1] /= "0"

\* the record of a string that is no version
NoVersion ==
    [err |-> TRUE, major |-> 0, minor |-> 0, patch |-> 0, pre |-> <<>>, metadata |-> <<>>]

\* semver.NewVersion: an optional "v", one to three groups of digits (a
\* missing minor or patch is 0), an optional prerelease after "-", an
\* optional build metadata after "+"; anything else is an error
NewVersion(s) ==
    LET body == IF s /= <<>> /\ s[1] = "v" THEN Tail(s) ELSE s
        cut == FirstIdx(body, {"-", "+"})
        head == IF cut = 0 THEN body ELSE SubSeq(body, 1, cut - 1)
        rest == IF cut = 0 THEN <<>> ELSE SubSeq(body, cut, Len(body))
        plus == FirstIdx(rest, {"+"})
        hasPre == rest /= <<>> /\ rest[1] = "-"
        hasMeta == plus /= 0
        pre == IF ~hasPre THEN <<>>
               ELSE IF hasMeta THEN SubSeq(rest, 2, plus - 1)
               ELSE Tail(rest)
        metadata == IF hasMeta THEN SubSeq(rest, plus + 1, Len(rest)) ELSE <<>>
        parts == SplitDots(head)
    IN IF /\ Len(parts) \in 1..3
          /\ \A i \in 1..Len(parts) : AllDigits(parts[i])
          /\ hasPre => (ValidSegments(pre) /\ validatePrerelease(pre))
          /\ hasMeta => ValidSegments(metadata)
       THEN [err |-> FALSE,
             major |-> Atoi(parts[1]),
             minor |-> IF Len(parts) >= 2 THEN Atoi(parts[2]) ELSE 0,
             patch |-> IF Len(parts) >= 3 THEN Atoi(parts[3]) ELSE 0,
             pre |-> pre,
             metadata |-> metadata]
       ELSE NoVersion

\* Go's s < o on strings: byte by byte, a proper prefix is less
RECURSIVE StringLess(_, _)
StringLess(s, o) ==
    IF o = <<>> THEN FALSE
    ELSE IF s = <<>> THEN TRUE
    ELSE IF s[1] /= o[1] THEN ByteOf(s[1]) < ByteOf(o[1])
    ELSE StringLess(Tail(s), Tail(o))

\* comparePrePart: -1, 0 or 1; an absent segment is less than any segment, a
\* number is less than a word, numbers compare by value, words as strings
comparePrePart(s, o) ==
    IF s = o THEN 0
    ELSE IF s = <<>> THEN -1
    ELSE IF o = <<>> THEN 1
    ELSE IF ~AllDigits(o) /\ ~AllDigits(s) THEN (IF StringLess(o, s) THEN 1 ELSE -1)
    ELSE IF ~AllDigits(o) THEN -1
    ELSE IF ~AllDigits(s) THEN 1
    ELSE IF Atoi(s) > Atoi(o) THEN 1 ELSE -1

\* comparePrerelease from segment i on
RECURSIVE comparePreFrom(_, _, _)
comparePreFrom(sparts, oparts, i) ==
    IF i > Len(sparts) /\ i > Len(oparts) THEN 0
    ELSE LET stemp == IF i <= Len(sparts) THEN sparts[i] ELSE <<>>
             otemp == IF i <= Len(oparts) THEN oparts[i] ELSE <<>>
             d == comparePrePart(stemp, otemp)
         IN IF d /= 0 THEN d ELSE comparePreFrom(sparts, oparts, i + 1)

comparePrerelease(v, o) == comparePreFrom(SplitDots(v), SplitDots(o), 1)

\* Version.Compare: major, minor, patch, then the prerelease, where a
\* version without one is the greater; the metadata takes no part
Compare(v, o) ==
    IF v.major /= o.major THEN (IF v.major < o.major THEN -1 ELSE 1)
    ELSE IF v.minor /= o.minor THEN (IF v.minor < o.minor THEN -1 ELSE 1)
    ELSE IF v.patch /= o.patch THEN (IF v.patch < o.patch THEN -1 ELSE 1)
    ELSE IF v.pre = <<>> /\ o.pre = <<>> THEN 0
    ELSE IF v.pre = <<>> THEN 1
    ELSE IF o.pre = <<>> THEN -1
    ELSE comparePrerelease(v.pre, o.pre)

\* not Version.LessThan(w, v)
VersionLeq(v, w) == Compare(v, w) <= 0

\* Version.String: "major.minor.patch", "-prerelease", "+metadata"
VersionString(v) ==
    Itoa(v.major) \o <<".">> \o Itoa(v.minor) \o <<".">> \o Itoa(v.patch)
        \o (IF v.pre /= <<>> THEN <<"-">> \o v.pre ELSE <<>>)
        \o (IF v.metadata /= <<>> THEN <<"+">> \o v.metadata ELSE <<>>)

\* lo.Uniq: the first occurrence of each value, in order
RECURSIVE Uniq(_)
Uniq(s) ==
    IF s = <<>> THEN <<>>
    ELSE LET init == Uniq(SubSeq(s, 1, Len(s) - 1))
         IN IF \E i \in 1..Len(init) : init[i] = s[Len(s)]
            THEN init
            ELSE Append(init, s[Len(s)])

\* the lo.Map of initOutBom: a document's license-list version, "" without one
docLicVersion(doc) ==
    IF ~doc.CreationInfo.isNil /\ doc.CreationInfo.LicenseListVersion /= <<>>
    THEN doc.CreationInfo.LicenseListVersion
    ELSE <<>>

lVersionsOf(docs) == Uniq([i \in 1..Len(docs) |-> docLicVersion(docs[i])])

\* vs[0] after sort.Sort(semver.Collection(vs)): the sort of a short slice
\* is an insertion sort, which leaves equal versions in their order, so
\* vs[0] is the first of the versions that no other is less than
FirstLowest(vs) ==
    CHOOSE i \in 1..Len(vs) :
        /\ \A j \in 1..Len(vs) : VersionLeq(vs[i], vs[j])
        /\ \A k \in 1..(i - 1) : \E j \in 1..Len(vs) : ~VersionLeq(vs[k], vs[j])

\* the license-list version initOutBom selects: panic when a candidate
\* does not parse, else the version
finalLicVersion(docs) ==
    LET lVersions == lVersionsOf(docs)
        vs == [i \in 1..Len(lVersions) |-> NewVersion(lVersions[i])]
    IN IF Len(lVersions) > 1
       THEN (IF \E i \in 1..Len(vs) : vs[i].err
             THEN [panic |-> TRUE, version |-> <<>>]
             ELSE [panic |-> FALSE,
                   version |-> VersionString(vs[FirstLowest(vs)])])
       ELSE IF Len(lVersions) = 1 /\ Trim(lVersions[1], " ") /= <<>>
       THEN [panic |-> FALSE, version |-> lVersions[1]]
       ELSE [panic |-> FALSE, version |-> <<"3",".","1","9">>]

----------------------------------------------------------------------------
(* The hierarchical merge: identifiers, relationships, input documents *)

\* the n-th value uuid.New() returns to this process: each differs from every
\* earlier one and from every uuid found in a loaded document ("u0")
UUID(n) == <<"u">> \o Itoa(n)

DocumentId == <<"D","O","C","U","M","E","N","T">>
RootPrefix == <<"R","o","o","t","P","a","c","k","a","g","e","-">>
PackagePrefix == <<"P","a","c","k","a","g","e","-">>

IdOldRoot == RootPrefix \o <<"u","0">>
IdOldPkg == PackagePrefix \o <<"u","0">>

Rel(a, b, kind) == [RefA |-> a, RefB |-> b, Relationship |-> kind]

MergePkg(id) == [PackageSPDXIdentifier |-> id, PackageName |-> id]

\* the component lists and relationships of the loaded documents: no
\* component, one described component, a described component with a
\* dependency, no DESCRIBES at all, the output of an earlier merge, two
\* described components with relationships in both directions
MergeShapes ==
    {[Packages |-> <<>>, Relationships |-> <<>>],
     [Packages |-> <<MergePkg(IdA)>>,
      Relationships |-> <<Rel(DocumentId, IdA, "DESCRIBES")>>],
     [Packages |-> <<MergePkg(IdA), MergePkg(IdB)>>,
      Relationships |-> <<Rel(DocumentId, IdA, "DESCRIBES"), Rel(IdA, IdB, "DEPENDS_ON")>>],
     [Packages |-> <<MergePkg(IdA), MergePkg(IdB)>>,
      Relationships |-> <<Rel(IdB, IdA, "DEPENDS_ON")>>],
     [Packages |-> <<MergePkg(IdOldRoot), MergePkg(IdOldPkg)>>,
      Relationships |-> <<Rel(DocumentId, IdOldRoot, "DESCRIBES"),
                          Rel(IdOldRoot, IdOldPkg, "CONTAINS")>>],
     [Packages |-> <<MergePkg(IdB), MergePkg(IdA)>>,
      Relationships |-> <<Rel(IdB, IdA, "DEPENDS_ON"), Rel(DocumentId, IdA, "DESCRIBES"),
                          Rel(DocumentId, IdB, "DESCRIBES"), Rel(IdA, IdB, "OTHER")>>]}

LicCreationInfo(v) == [isNil |-> FALSE, LicenseListVersion |-> v]
NilLicCreationInfo == [isNil |-> TRUE, LicenseListVersion |-> <<>>]

\* creation metadata of the loaded documents: absent, without a version,
\* with 3.19, 3.20, 3.9, the prerelease 3.19-rc1, 3.9 with build metadata
LicInfos ==
    {NilLicCreationInfo, LicCreationInfo(<<>>),
     LicCreationInfo(<<"3",".","1","9">>), LicCreationInfo(<<"3",".","2","0">>),
     LicCreationInfo(<<"3",".","9">>),
     LicCreationInfo(<<"3",".","1","9","-","r","c","1">>),
     LicCreationInfo(<<"3",".","9","+","b","1">>)}

\* the documents loadBom can deliver: every creation metadata on a document
\* of one component, every shape under license-list version 3.19
DocPool ==
    {[CreationInfo |-> ci, Packages |-> <<MergePkg(IdA)>>,
      Relationships |-> <<Rel(DocumentId, IdA, "DESCRIBES")>>] : ci \in LicInfos}
    \cup
    {[CreationInfo |-> LicCreationInfo(<<"3",".","1","9">>), Packages |-> sh.Packages,
      Relationships |-> sh.Relationships] : sh \in MergeShapes}

\* no document is under edit while documents are merged
EditIdle ==
    /\ bom = Bom(NilCreationInfo, <<>>, <<>>, [Packages |-> <<>>, Relationships |-> <<>>])
    /\ bom0 = bom
    /\ c = NoCfg("document", "missing")
    /\ pkg = 0 /\ epc = 0 /\ run = 0 /\ lastErr = "nil" /\ notSup = {}

\* newMerge
InitMerge ==
    /\ in = <<>>
    /\ in0 = <<>>
    /\ out = [LicenseListVersion |-> <<>>, Packages |-> <<>>, Relationships |-> <<>>]
    /\ pkgs = <<>>
    /\ deps = <<>>
    /\ mpc = "load"
    /\ di = 0
    /\ pi = 0
    /\ uuids = 1
    /\ rootPackageID = UUID(1)
    /\ newIds = <<>>
    /\ failed = <<>>
    /\ EditIdle

----------------------------------------------------------------------------
(* The merge engine: loadBoms, initOutBom, hierarchicalMerge, writeSBOM *)

\* one iteration of loadBoms: the loader delivers a document, or fails
LoadBom ==
    /\ mpc = "load"
    /\ Len(in) < MaxDocs
    /\ \E doc \in DocPool :
           /\ in' = Append(in, doc)
           /\ in0' = Append(in0, doc)
    /\ UNCHANGED <<out, pkgs, deps, mpc, di, pi, uuids, rootPackageID, newIds, failed>>
    /\ UNCHANGED editVars

LoadFailure ==
    /\ mpc = "load"
    /\ Len(in) < MaxDocs
    /\ mpc' = "loadFailed"
    /\ UNCHANGED <<in, in0, out, pkgs, deps, di, pi, uuids, rootPackageID, newIds, failed>>
    /\ UNCHANGED editVars

\* initOutBom, of which the model keeps the license-list version
InitOutBom ==
    /\ mpc = "load"
    /\ LET r == finalLicVersion(in)
       IN IF r.panic
          THEN mpc' = "aborted" /\ out' = out
          ELSE mpc' = "root" /\ out' = [out EXCEPT !.LicenseListVersion = r.version]
    /\ newIds' = [d \in 1..Len(in) |-> {}]
    /\ failed' = [d \in 1..Len(in) |-> {}]
    /\ UNCHANGED <<in, in0, pkgs, deps, di, pi, uuids, rootPackageID>>
    /\ UNCHANGED editVars

\* the identifier and the fields of the synthesized root component
setupPrimaryComp(rootId) ==
    [PackageSPDXIdentifier |-> RootPrefix \o rootId,
     PackageName |-> <<"a","p","p">>]

\* the relationship as it would be with RefA and RefB exchanged
rootDescribesReversed(pc) == Rel(pc.PackageSPDXIdentifier, DocumentId, "DESCRIBES")

\* the relationship between the document and the primary package
rootDescribes(pc) == Rel(DocumentId, pc.PackageSPDXIdentifier, "DESCRIBES")

\* the loops as they would be if they ended with the first input that has
\* been walked through
NextPosStopsAfterInput(docs, d, p) ==
    IF d > Len(docs) THEN <<d, 1>>
    ELSE IF p <= Len(docs[d].Packages) THEN <<d, p>>
    ELSE <<Len(docs) + 1, 1>>

\* the position of the two nested loops: the first component at or after
\* component p of document d, or past the last document
RECURSIVE NextPos(_, _, _)
NextPos(docs, d, p) ==
    IF d > Len(docs) THEN <<d, 1>>
    ELSE IF p <= Len(docs[d].Packages) THEN <<d, p>>
    ELSE NextPos(docs, d + 1, 1)

\* hierarchicalMerge up to its loop over the documents
SetupPrimaryComp ==
    /\ mpc = "root"
    /\ LET pc == setupPrimaryComp(rootPackageID)
       IN /\ pkgs' = <<pc>>
          /\ deps' = <<rootDescribes(pc)>>
    /\ di' = NextPos(in, 1, 1)[1]
    /\ pi' = NextPos(in, 1, 1)[2]
    /\ mpc' = "ingest"
    /\ UNCHANGED <<in, in0, out, uuids, rootPackageID, newIds, failed>>
    /\ UNCHANGED editVars

\* descRels: the DESCRIBES relationships of the document; the slice holds
\* pointers to the document's own relationships
descRelsOf(doc) == SelectSeq(doc.Relationships, LAMBDA r : r.Relationship = "DESCRIBES")

isDescribedPackage(p, descRels) ==
    \E k \in 1..Len(descRels) : descRels[k].RefB = p.PackageSPDXIdentifier

\* cloneComp: a deep copy of the component, or an error
cloneComp(p, ok) == [err |-> ~ok, pkg |-> p]

\* the lo.ForEach over doc.Relationships: both endpoints, independently
rewriteRels(rels, oldId, newId) ==
    [k \in 1..Len(rels) |->
        [rels[k] EXCEPT !.RefA = IF @ = oldId THEN newId ELSE @,
                        !.RefB = IF @ = oldId THEN newId ELSE @]]

\* one iteration of the loop over doc.Packages
IngestPkg ==
    /\ mpc = "ingest"
    /\ di <= Len(in)
    /\ \E ok \in BOOLEAN :
         LET doc == in[di]
             p == doc.Packages[pi]
             isDescPkg == isDescribedPackage(p, descRelsOf(doc))
             cl == cloneComp(p, ok)
             newId == PackagePrefix \o UUID(uuids + 1)
             pc == pkgs[1]
         IN IF cl.err
            THEN /\ failed' = [failed EXCEPT ![di] = @ \cup {pi}]
                 /\ UNCHANGED <<in, pkgs, deps, uuids, newIds>>
            ELSE IF isDescPkg
            THEN /\ uuids' = uuids + 1
                 /\ deps' = Append(deps, Rel(pc.PackageSPDXIdentifier, newId, "CONTAINS"))
                 /\ in' = [in EXCEPT ![di].Relationships =
                              rewriteRels(@, p.PackageSPDXIdentifier, newId)]
                 /\ pkgs' = Append(pkgs, [cl.pkg EXCEPT !.PackageSPDXIdentifier = newId])
                 /\ newIds' = [newIds EXCEPT ![di] = @ \cup {<<p.PackageSPDXIdentifier, newId>>}]
                 /\ UNCHANGED failed
            ELSE /\ pkgs' = Append(pkgs, cl.pkg)
                 /\ UNCHANGED <<in, deps, uuids, newIds, failed>>
    /\ di' = NextPos(in, di, pi + 1)[1]
    /\ pi' = NextPos(in, di, pi + 1)[2]
    /\ UNCHANGED <<in0, out, mpc, rootPackageID>>
    /\ UNCHANGED editVars

\* lo.FlatMap(m.in, ...): the relationships of every input that are not DESCRIBES
RECURSIVE otherRels(_)
otherRels(docs) ==
    IF docs = <<>> THEN <<>>
    ELSE SelectSeq(Head(docs).Relationships, LAMBDA r : r.Relationship /= "DESCRIBES")
         \o otherRels(Tail(docs))

\* hierarchicalMerge after the loop, up to the call of writeSBOM
FinishMerge ==
    /\ mpc = "ingest"
    /\ di > Len(in)
    /\ deps' = deps \o otherRels(in)
    /\ out' = [out EXCEPT !.Packages = pkgs, !.Relationships = deps']
    /\ mpc' = "write"
    /\ UNCHANGED <<in, in0, pkgs, di, pi, uuids, rootPackageID, newIds, failed>>
    /\ UNCHANGED editVars

\* writeSBOM: the document is written, or creating or writing the file fails
WriteSBOM ==
    /\ mpc = "write"
    /\ \E ok \in BOOLEAN : mpc' = IF ok THEN "done" ELSE "writeFailed"
    /\ UNCHANGED <<in, in0, out, pkgs, deps, di, pi, uuids, rootPackageID, newIds, failed>>
    /\ UNCHANGED editVars

NextMerge ==
    \/ LoadBom
    \/ LoadFailure
    \/ InitOutBom
    \/ SetupPrimaryComp
    \/ IngestPkg
    \/ FinishMerge
    \/ WriteSBOM

SpecMerge == InitMerge /\ [][NextMerge]_vars

----------------------------------------------------------------------------
(* Properties of the merge engine *)

\* initOutBom has run and did not abort
LicSelected == mpc \notin {"load", "loadFailed", "aborted"}

\* the distinct non-empty license-list versions of the inputs
NonEmptyVersions ==
    {docLicVersion(in0[i]) : i \in 1..Len(in0)} \ {<<>>}

\* the lowest of a set of versions by semantic-version order, as the input string
LowestOf(S) ==
    CHOOSE v \in S : \A w \in S : VersionLeq(NewVersion(v), NewVersion(w))

\* C2: the output license-list version comes from the distinct non-empty
\* versions of the inputs: none gives "3.19", one gives it verbatim, several
\* give the lowest by semantic-version order as the input string; and the
\* merge does not abort when every non-empty version parses.
C2_LicenseListSelection ==
    /\ mpc = "aborted"
          => \E v \in NonEmptyVersions : NewVersion(v).err
    /\ LicSelected =>
          out.LicenseListVersion =
              (IF NonEmptyVersions = {} THEN <<"3",".","1","9">>
               ELSE IF Cardinality(NonEmptyVersions) = 1
               THEN CHOOSE v \in NonEmptyVersions : TRUE
               ELSE LowestOf(NonEmptyVersions))

\* the merge has run to the point where m.out is complete
Merged == mpc \in {"write", "done", "writeFailed"}

\* C3: a hierarchical merge leaves every loaded input document unchanged.
C3_InputsUnchanged ==
    Merged => in = in0

\* the original identifiers of the described components of input d
DescribedIds(d) ==
    {in0[d].Packages[i].PackageSPDXIdentifier : i \in
        {j \in 1..Len(in0[d].Packages) :
            isDescribedPackage(in0[d].Packages[j], descRelsOf(in0[d]))}}

\* the relationships of input d that go to the output: all but DESCRIBES
OutputRelIdx(d) ==
    {k \in 1..Len(in0[d].Relationships) : in0[d].Relationships[k].Relationship /= "DESCRIBES"}

AllDescribedIds == UNION {DescribedIds(d) : d \in 1..Len(in0)}

\* C4: after the merge, every relationship of an input that referenced the
\* original identifier of one of its described components carries the new
\* identifier, and no relationship of the output has an endpoint equal to
\* the original identifier of a described component.
C4_RewriteCorrectness ==
    Merged =>
        /\ \A d \in 1..Len(in0) : \A k \in OutputRelIdx(d) :
               /\ in0[d].Relationships[k].RefA \in DescribedIds(d)
                     => <<in0[d].Relationships[k].RefA, in[d].Relationships[k].RefA>> \in newIds[d]
               /\ in0[d].Relationships[k].RefB \in DescribedIds(d)
                     => <<in0[d].Relationships[k].RefB, in[d].Relationships[k].RefB>> \in newIds[d]
        /\ \A k \in 1..Len(out.Relationships) :
               /\ out.Relationships[k].RefA \notin AllDescribedIds
               /\ out.Relationships[k].RefB \notin AllDescribedIds

\* the first half of C4 for the merges in which every copy succeeded
C4_WithinInputNoFailure ==
    (Merged /\ \A d \in 1..Len(in0) : failed[d] = {}) =>
        \A d \in 1..Len(in0) : \A k \in OutputRelIdx(d) :
               /\ in0[d].Relationships[k].RefA \in DescribedIds(d)
                     => <<in0[d].Relationships[k].RefA, in[d].Relationships[k].RefA>> \in newIds[d]
               /\ in0[d].Relationships[k].RefB \in DescribedIds(d)
                     => <<in0[d].Relationships[k].RefB, in[d].Relationships[k].RefB>> \in newIds[d]

\* C10: the first relationship of the merged output is DESCRIBES from the
\* document to the synthesized root, the root is the first component, and
\* the root's identifier differs from every component identifier of every
\* input and from every identifier assigned to a described component.
C10_RootInvariant ==
    Merged =>
        LET rootId == RootPrefix \o rootPackageID
        IN /\ Len(out.Relationships) >= 1
           /\ out.Relationships[1] = Rel(DocumentId, rootId, "DESCRIBES")
           /\ Len(out.Packages) >= 1
           /\ out.Packages[1].PackageSPDXIdentifier = rootId
           /\ \A d \in 1..Len(in0) : \A i \in 1..Len(in0[d].Packages) :
                  in0[d].Packages[i].PackageSPDXIdentifier /= rootId
           /\ \A d \in 1..Len(in0) : \A pr \in newIds[d] : pr[2] /= rootId
           /\ \A i \in 2..Len(out.Packages) : out.Packages[i].PackageSPDXIdentifier /= rootId

\* the number of components of the inputs from input d on
RECURSIVE InputCount(_)
InputCount(d) ==
    IF d > Len(in0) THEN 0 ELSE Len(in0[d].Packages) + InputCount(d + 1)

\* the number of components whose copy failed, from input d on
RECURSIVE FailureCount(_)
FailureCount(d) ==
    IF d > Len(in0) THEN 0 ELSE Cardinality(failed[d]) + FailureCount(d + 1)

\* the positions of the components of input d whose copy succeeded, in order
KeptIdx(d) ==
    SelectSeq([i \in 1..Len(in0[d].Packages) |-> i], LAMBDA i : i \notin failed[d])

\* the names of the components of the inputs from input d on whose copy
\* succeeded, in input order and component order
RECURSIVE KeptNames(_)
KeptNames(d) ==
    IF d > Len(in0) THEN <<>>
    ELSE [k \in 1..Len(KeptIdx(d)) |-> in0[d].Packages[KeptIdx(d)[k]].PackageName]
         \o KeptNames(d + 1)

\* C11: the merged output has 1 (the root) plus the components of all inputs
\* minus the components whose copy failed; after the root come exactly the
\* components whose copy succeeded, of every input, in input order and
\* component order, so a failure skips that one component only.
C11_MergeCardinality ==
    Merged =>
        /\ Len(out.Packages) = 1 + InputCount(1) - FailureCount(1)
        /\ [k \in 1..(Len(out.Packages) - 1) |-> out.Packages[k + 1].PackageName] = KeptNames(1)

\* two inputs of two components each were merged; the copy of the first
\* component of the first input failed, the second component of that input
\* and both components of the second input were copied
C11_Witness ==
    /\ mpc = "done"
    /\ Len(in0) = 2
    /\ \A d \in 1..2 : Len(in0[d].Packages) = 2
    /\ failed = <<{1}, {}>>
    /\ Len(out.Packages) = 4

\* the identifier given to the described component of input d that was
\* loaded with the identifier old
NewIdOf(d, old) == (CHOOSE pr \in newIds[d] : pr[1] = old)[2]

\* the positions of the described components of input d whose copy succeeded
DescribedKeptIdx(d) ==
    SelectSeq(KeptIdx(d),
              LAMBDA i : isDescribedPackage(in0[d].Packages[i], descRelsOf(in0[d])))

\* the CONTAINS relationships from the root to the described components of
\* input d, in component order
ContainsOf(d) ==
    [k \in 1..Len(DescribedKeptIdx(d)) |->
        Rel(RootPrefix \o rootPackageID,
            NewIdOf(d, in0[d].Packages[DescribedKeptIdx(d)[k]].PackageSPDXIdentifier),
            "CONTAINS")]

\* the relationships of input d after the merge that are not DESCRIBES
OwnRelsOf(d) == SelectSeq(in[d].Relationships, LAMBDA r : r.Relationship /= "DESCRIBES")

\* input by input from input d on: its CONTAINS relationships, then its own
RECURSIVE PerInputRels(_)
PerInputRels(d) ==
    IF d > Len(in0) THEN <<>> ELSE ContainsOf(d) \o OwnRelsOf(d) \o PerInputRels(d + 1)

\* the CONTAINS relationships of the inputs from input d on
RECURSIVE AllContains(_)
AllContains(d) ==
    IF d > Len(in0) THEN <<>> ELSE ContainsOf(d) \o AllContains(d + 1)

\* the inputs' own relationships from input d on
RECURSIVE AllOwnRels(_)
AllOwnRels(d) ==
    IF d > Len(in0) THEN <<>> ELSE OwnRelsOf(d) \o AllOwnRels(d + 1)

\* C13: the relationship list of the merged output is the root's DESCRIBES,
\* then for each input in input order its CONTAINS relationships (in
\* component order) followed by that input's own non-DESCRIBES relationships
\* in their original order, before anything of the next input; stated for
\* the merges in which every copy succeeded.
C13_PerInputRelationshipOrder ==
    (Merged /\ \A d \in 1..Len(in0) : failed[d] = {}) =>
        out.Relationships =
            <<Rel(DocumentId, RootPrefix \o rootPackageID, "DESCRIBES")>> \o PerInputRels(1)

\* the order the relationship list has: the root's DESCRIBES, the CONTAINS
\* relationships of all inputs, then the own relationships of all inputs
ContainsBeforeAllOwnRels ==
    Merged =>
        out.Relationships =
            <<Rel(DocumentId, RootPrefix \o rootPackageID, "DESCRIBES")>>
                \o AllContains(1) \o AllOwnRels(1)

\* two inputs were merged, one of them the output of an earlier merge with
\* its own root component, and described components were given new identifiers
C10_Witness ==
    /\ mpc = "done"
    /\ Len(in0) = 2
    /\ \E d \in 1..2 : in0[d].Packages /= <<>> /\ in0[d].Packages[1].PackageSPDXIdentifier = IdOldRoot
    /\ \A d \in 1..2 : newIds[d] /= {}

\* no input at all was merged
C10_WitnessEmpty ==
    mpc = "done" /\ in0 = <<>>

====
